---- MODULE Spec2Model ----
(***************************************************************************)
(* Model of the AI Memory MCP server: the file-backed memory bank store    *)
(* (MemoryBankService), the protocol server's routes, resources and tools  *)
(* (MemoryBankMCPServer), its start/stop lifecycle with a second instance  *)
(* on the same port, and the webview's liveness probe (WebviewManager).    *)
(***************************************************************************)
EXTENDS Integers, Sequences, FiniteSets, TLC

(* ------------------------------ bounds --------------------------------- *)
\* how many of the document kinds of the enumeration the model carries
NumKinds == 1
\* the wall clock runs from 0 to MaxTime (milliseconds, as Date resolves them)
MaxTime == 1
\* how many streaming connections (SSEServerTransport objects) are created
MaxConn == 2
\* how many listeners app.listen creates
MaxListeners == 2

\* update-memory-bank-file invocations in one run
MaxCalls == 2

\* the timeout of a liveness probe, in steps of the probe's idle timer
TimeoutTicks == 2

\* how much of a response that never ends the model keeps in data
MaxData == 6

(* --------------------------- document kinds ---------------------------- *)
\* values of the MemoryBankFileType enumeration, in declaration order
KindOrder ==
  << "projectbrief.md", "productContext.md", "activeContext.md",
     "systemPatterns.md", "techContext.md", "progress.md" >>

KindSeq == SubSeq(KindOrder, 1, NumKinds)

Kinds == { KindSeq[i] : i \in 1..Len(KindSeq) }

\* a fileType string a client may send that is no value of the enumeration
UnknownTypes == { "notes.md" }

\* every fileType string a request carries (z.string(), cast unchecked)
FileTypes == Kinds \cup UnknownTypes

\* getTemplateForFileType: the first header line stands for the template text
getTemplateForFileType(fileType) ==
  CASE fileType = "projectbrief.md"   -> "# Project Brief"
    [] fileType = "productContext.md" -> "# Product Context"
    [] fileType = "activeContext.md"  -> "# Active Context"
    [] fileType = "systemPatterns.md" -> "# System Patterns"
    [] fileType = "techContext.md"    -> "# Tech Context"
    [] fileType = "progress.md"       -> "# Progress"
    [] OTHER                          -> "# Memory Bank File"

\* content a client writes through updateFile
NewContents == { "X" }

\* content of a kind file that was on disk before the program ran
OldContent == "old"

Min(a, b) == IF a < b THEN a ELSE b

VARIABLES
  dirExists,   \* fs: the memory-bank folder exists
  disk,        \* fs: file name -> [content, mtime], for the files that exist
  files,       \* MemoryBankService.files, a Map in insertion order
  now,         \* the wall clock both new Date() and the file system read
  transport,   \* MemoryBankMCPServer.transport (0 is null)
  transports,  \* MemoryBankMCPServer.transports (ids held in the Map)
  isRunning,   \* MemoryBankMCPServer.isRunning
  httpServer,  \* MemoryBankMCPServer.httpServer (0 is null)
  listeners,   \* listener id -> "binding" | "listening" | "failed" | "closed"
  conns,       \* transport id -> state of its streaming connection
  peer,        \* a second MemoryBankMCPServer configured with the same port
  probe,       \* WebviewManager.checkServerHealth: the request in flight
  calls,       \* update-memory-bank-file invocations, in dispatch order
  last         \* the last operation performed and what it returned

storeVars == << dirExists, disk, files, now >>
serverVars == << transport, transports, isRunning, httpServer, listeners >>
sessionVars == << conns >>
otherVars == << peer, probe, calls >>
vars == << dirExists, disk, files, now, transport, transports, isRunning,
           httpServer, listeners, conns, peer, probe, calls, last >>

(* ----------------------------- file system ----------------------------- *)
existsSync(d, name) == name \in DOMAIN d

\* the file `name` holds `content`, stamped with the clock reading t
PutFile(d, name, content, t) ==
  [ n \in (DOMAIN d) \cup {name} |->
      IF n = name THEN [content |-> content, mtime |-> t] ELSE d[n] ]

\* how a write ends: "ok", "denied" (open fails, nothing changes) or "full"
\* (the file was opened for writing, so truncated, and the write then failed)
WriteOutcomes == { "ok", "denied", "full" }

\* fs.writeFileSync(path, content) at clock reading t; a write into a folder
\* that does not exist fails whatever the outcome drawn. message is the
\* message of the Error thrown ("" when none is)
writeFileSync(dir, d, name, content, outcome, t) ==
  IF ~dir THEN [disk |-> d, threw |-> TRUE, message |-> "ENOENT"]
  ELSE IF outcome = "denied" THEN [disk |-> d, threw |-> TRUE, message |-> "EACCES"]
  ELSE IF outcome = "full"
    THEN [disk |-> PutFile(d, name, "", t), threw |-> TRUE, message |-> "ENOSPC"]
  ELSE [disk |-> PutFile(d, name, content, t), threw |-> FALSE, message |-> ""]

(* -------------------------- the Map of files --------------------------- *)
MapHas(m, type) == \E i \in 1..Len(m) : m[i].type = type

MapIndex(m, type) == CHOOSE i \in 1..Len(m) : m[i].type = type

\* Map.set: an existing key keeps its position, a new key is appended
MapSet(m, doc) ==
  IF MapHas(m, doc.type)
    THEN [ m EXCEPT ![MapIndex(m, doc.type)] = doc ]
    ELSE Append(m, doc)

Undefined == [ type |-> "undefined" ]

Doc(type, content, t) == [ type |-> type, content |-> content, lastUpdated |-> t ]

\* MemoryBankService.getFile
getFile(m, type) == IF MapHas(m, type) THEN m[MapIndex(m, type)] ELSE Undefined

\* MemoryBankService.getAllFiles
getAllFiles(m) == m

(* --------------------------- MemoryBankService ------------------------- *)
\* the clock reading of a new Date() taken after a write stamped t: the same
\* millisecond, or the next one when the clock ticked in between
DateAfter(t, tick) == IF tick THEN Min(t + 1, MaxTime) ELSE t

\* loadOne leaving out of the Map a kind whose file exists
loadOne_SkipExisting(st, dir, k, failAt, failMode, tickAt) ==
  IF existsSync(st.disk, k)
    THEN IF failAt = k
           THEN [st EXCEPT !.threw = TRUE, !.message = "EACCES"]
           ELSE st
    ELSE LET template == getTemplateForFileType(k)
             w == writeFileSync(dir, st.disk, k, template,
                                IF failAt = k THEN failMode ELSE "ok", st.clock)
             t2 == DateAfter(st.clock, k = tickAt)
         IN IF w.threw
              THEN [st EXCEPT !.disk = w.disk, !.threw = TRUE,
                              !.message = w.message]
              ELSE [st EXCEPT !.disk = w.disk, !.clock = t2,
                              !.files = MapSet(@, Doc(k, template, t2))]

\* one round of the loop of loadFiles, for the kind k; st is
\* [disk, files, clock, threw, message]
loadOne(st, dir, k, failAt, failMode, tickAt) ==
  IF existsSync(st.disk, k)
    THEN IF failAt = k
           THEN [st EXCEPT !.threw = TRUE, !.message = "EACCES"]
           ELSE [st EXCEPT !.files =
                   MapSet(@, Doc(k, st.disk[k].content, st.disk[k].mtime))]
    ELSE LET template == getTemplateForFileType(k)
             w == writeFileSync(dir, st.disk, k, template,
                                IF failAt = k THEN failMode ELSE "ok", st.clock)
             t2 == DateAfter(st.clock, k = tickAt)
         IN IF w.threw
              THEN [st EXCEPT !.disk = w.disk, !.threw = TRUE,
                              !.message = w.message]
              ELSE [st EXCEPT !.disk = w.disk, !.clock = t2,
                              !.files = MapSet(@, Doc(k, template, t2))]

RECURSIVE loadFrom(_, _, _, _, _, _)
loadFrom(i, st, dir, failAt, failMode, tickAt) ==
  IF i > Len(KindSeq) \/ st.threw THEN st
  ELSE loadFrom(i + 1, loadOne(st, dir, KindSeq[i], failAt, failMode, tickAt),
                dir, failAt, failMode, tickAt)

\* MemoryBankService.loadFiles: clear the Map, then load or template each kind
\* in declaration order. failAt is the kind whose file operation fails (or
\* "none"), tickAt the kind at which the clock ticks between the write of the
\* template and the new Date() that follows it (or "none")
loadFiles(dir, d, t, failAt, failMode, tickAt) ==
  loadFrom(1, [disk |-> d, files |-> << >>, clock |-> t, threw |-> FALSE,
               message |-> ""],
           dir, failAt, failMode, tickAt)

\* updateFile setting the Map entry before it writes the file
updateFile_CacheFirst(dir, d, m, t, type, content, outcome, tick) ==
  LET w == writeFileSync(dir, d, type, content, outcome, t)
      t2 == DateAfter(t, tick)
  IN [disk |-> w.disk, files |-> MapSet(m, Doc(type, content, t2)),
      clock |-> IF w.threw THEN t ELSE t2, threw |-> w.threw,
      message |-> w.message]

\* updateFile stamping the Map entry with the stamp the entry had (0 when new)
updateFile_OldStamp(dir, d, m, t, type, content, outcome, tick) ==
  LET w == writeFileSync(dir, d, type, content, outcome, t)
      t0 == IF MapHas(m, type) THEN getFile(m, type).lastUpdated - 1 ELSE 0
  IN IF w.threw
       THEN [disk |-> w.disk, files |-> m, clock |-> t, threw |-> TRUE,
             message |-> w.message]
       ELSE [disk |-> w.disk, files |-> MapSet(m, Doc(type, content, t0)),
             clock |-> DateAfter(t, tick), threw |-> FALSE, message |-> ""]

\* MemoryBankService.updateFile: write the file, then set the Map entry
updateFile(dir, d, m, t, type, content, outcome, tick) ==
  LET w == writeFileSync(dir, d, type, content, outcome, t)
      t2 == DateAfter(t, tick)
  IN IF w.threw
       THEN [disk |-> w.disk, files |-> m, clock |-> t, threw |-> TRUE,
             message |-> w.message]
       ELSE [disk |-> w.disk, files |-> MapSet(m, Doc(type, content, t2)),
             clock |-> t2, threw |-> FALSE, message |-> ""]

\* getIsMemoryBankInitialized answering from the cache
getIsMemoryBankInitialized_FromCache(dir, d) ==
  dir /\ \A k \in Kinds : MapHas(files, k)

\* MemoryBankService.getIsMemoryBankInitialized
getIsMemoryBankInitialized(dir, d) ==
  dir /\ \A k \in Kinds : existsSync(d, k)

(* ----------------------- the record of the last call ------------------- *)
\* the port the server is constructed with: the first of the two ports the
\* webview probes
Port == 7331

\* the body of an answer that has none
NoBody == [ mcpServer |-> FALSE, transport |-> FALSE, isRunning |-> FALSE,
            port |-> 0 ]

NoCall ==
  [ op |-> "none", type |-> "", content |-> "", threw |-> FALSE,
    isError |-> FALSE, text |-> << >>, status |-> 0, target |-> 0,
    value |-> FALSE, body |-> NoBody ]

Call(op) == [ NoCall EXCEPT !.op = op ]

\* the second instance after construction: not running, no listener, none
\* created yet
NoPeer == [ isRunning |-> FALSE, httpServer |-> 0, created |-> {} ]

\* no liveness probe has been sent yet
NoProbe ==
  [ pc |-> "idle", from |-> "none", statusCode |-> 0, rest |-> << >>,
    endless |-> FALSE, data |-> << >>, idle |-> 0, resolved |-> "pending",
    by |-> "none" ]

(* ------------------------------ store steps ---------------------------- *)
\* time passes between two calls
Tick ==
  /\ now < MaxTime
  /\ now' = now + 1
  /\ UNCHANGED << dirExists, disk, files, last, serverVars, sessionVars, otherVars >>

\* a file of the folder is removed by another program; the cache is not told
RemoveFile ==
  \E k \in DOMAIN disk :
    /\ disk' = [ n \in DOMAIN disk \ {k} |-> disk[n] ]
    /\ last' = [ Call("file removed") EXCEPT !.type = k ]
    /\ UNCHANGED << dirExists, files, now, serverVars, sessionVars, otherVars >>

\* a call of getIsMemoryBankInitialized
GetIsMemoryBankInitialized ==
  /\ last' = [ Call("getIsMemoryBankInitialized") EXCEPT
                 !.value = getIsMemoryBankInitialized(dirExists, disk) ]
  /\ UNCHANGED << storeVars, serverVars, sessionVars, otherVars >>

\* MemoryBankService.initializeFolders -> ensureMemoryBankFolder
InitializeFolders ==
  /\ dirExists' = TRUE
  /\ last' = Call("initializeFolders")
  /\ UNCHANGED << disk, files, now, serverVars, sessionVars, otherVars >>

\* a call of loadFiles with the outcomes of its file operations drawn
LoadFilesCall(failAt, failMode, tickAt) ==
  LET r == loadFiles(dirExists, disk, now, failAt, failMode, tickAt)
  IN /\ disk' = r.disk
     /\ files' = r.files
     /\ now' = r.clock
     /\ last' = [ Call("loadFiles") EXCEPT !.threw = r.threw ]
     /\ UNCHANGED << dirExists, serverVars, sessionVars, otherVars >>

LoadFiles ==
  \E failAt \in Kinds \cup {"none"}, failMode \in {"denied", "full"},
     tickAt \in Kinds \cup {"none"} :
    /\ (failAt = "none" => failMode = "denied")
    /\ LoadFilesCall(failAt, failMode, tickAt)

\* a direct call of updateFile(type: MemoryBankFileType, content)
UpdateFileCall(type, content, outcome, tick) ==
  LET r == updateFile(dirExists, disk, files, now, type, content, outcome, tick)
  IN /\ disk' = r.disk
     /\ files' = r.files
     /\ now' = r.clock
     /\ last' = [ Call("updateFile") EXCEPT !.type = type,
                     !.content = content, !.threw = r.threw ]
     /\ UNCHANGED << dirExists, serverVars, sessionVars, otherVars >>

UpdateFile ==
  \E type \in Kinds, content \in NewContents, outcome \in WriteOutcomes,
     tick \in BOOLEAN :
    UpdateFileCall(type, content, outcome, tick)

(* ------------------- MemoryBankMCPServer: resources, tools ------------- *)
\* handler of the resource memory-bank-files
memoryBankFilesResource(m, type) ==
  LET file == getFile(m, type)
  IN IF file = Undefined
       THEN [threw |-> TRUE, isError |-> FALSE,
             text |-> << "File", type, "not found" >>]
       ELSE [threw |-> FALSE, isError |-> FALSE, text |-> << file.content >>]

\* the tool get-memory-bank-file throwing for a missing file, as the resource
getMemoryBankFileTool_Throws(m, type) == memoryBankFilesResource(m, type)

\* handler of the tool get-memory-bank-file
getMemoryBankFileTool(m, type) ==
  LET file == getFile(m, type)
  IN IF file = Undefined
       THEN [threw |-> FALSE, isError |-> TRUE,
             text |-> << "File", type, "not found" >>]
       ELSE [threw |-> FALSE, isError |-> FALSE, text |-> << file.content >>]

\* the tool update-memory-bank-file without its try/catch
updateMemoryBankFileTool_NoCatch(dir, d, m, t, type, content, outcome, tick) ==
  LET r == updateFile(dir, d, m, t, type, content, outcome, tick)
  IN [disk |-> r.disk, files |-> r.files, clock |-> r.clock,
      threw |-> r.threw, isError |-> FALSE,
      text |-> IF r.threw THEN << r.message >>
               ELSE << "Updated", type, "successfully" >>]

\* handler of the tool update-memory-bank-file: updateFile in a try/catch
updateMemoryBankFileTool(dir, d, m, t, type, content, outcome, tick) ==
  LET r == updateFile(dir, d, m, t, type, content, outcome, tick)
  IN IF r.threw
       THEN [disk |-> r.disk, files |-> r.files, clock |-> r.clock,
             threw |-> FALSE, isError |-> TRUE,
             text |-> << "Error updating", type, r.message >>]
       ELSE [disk |-> r.disk, files |-> r.files, clock |-> r.clock,
             threw |-> FALSE, isError |-> FALSE,
             text |-> << "Updated", type, "successfully" >>]

ReadMemoryBankFiles ==
  \E type \in FileTypes :
    LET r == memoryBankFilesResource(files, type)
    IN /\ last' = [ Call("memory-bank-files") EXCEPT !.type = type,
                       !.threw = r.threw, !.isError = r.isError,
                       !.text = r.text ]
       /\ UNCHANGED << storeVars, serverVars, sessionVars, otherVars >>

GetMemoryBankFile ==
  \E type \in FileTypes :
    LET r == getMemoryBankFileTool(files, type)
    IN /\ last' = [ Call("get-memory-bank-file") EXCEPT !.type = type,
                       !.threw = r.threw, !.isError = r.isError,
                       !.text = r.text ]
       /\ UNCHANGED << storeVars, serverVars, sessionVars, otherVars >>

UpdateMemoryBankFileCall(type, content, outcome, tick) ==
  LET r == updateMemoryBankFileTool(dirExists, disk, files, now, type,
                                    content, outcome, tick)
  IN /\ disk' = r.disk
     /\ files' = r.files
     /\ now' = r.clock
     /\ last' = [ Call("update-memory-bank-file") EXCEPT !.type = type,
                     !.threw = r.threw, !.isError = r.isError,
                     !.text = r.text ]
     /\ UNCHANGED << dirExists, serverVars, sessionVars, otherVars >>

UpdateMemoryBankFile ==
  \E type \in FileTypes, content \in NewContents, outcome \in WriteOutcomes,
     tick \in BOOLEAN :
    UpdateMemoryBankFileCall(type, content, outcome, tick)

(* ------------------ tool invocations that overlap ---------------------- *)
\* The handler of update-memory-bank-file is an async function: an invocation
\* runs up to its await when it is dispatched, and updateFile, whose body has
\* no await, has then written the file and the cache; the rest of the handler
\* runs when the await resumes. Invocations dispatched in the same turn resume
\* in the order they were dispatched.

\* content a client writes through the tool
CallContents == NewContents \cup { "Y" }

\* the invocations that were dispatched and have not returned
Pending == { i \in 1..Len(calls) : calls[i].doneAt = 0 }

\* how many invocations have returned
Completed == Cardinality((1..Len(calls)) \ Pending)

\* the handler up to the await
DispatchUpdate ==
  /\ Len(calls) < MaxCalls
  /\ \E type \in Kinds, content \in CallContents, outcome \in WriteOutcomes,
        tick \in BOOLEAN :
       LET r == updateMemoryBankFileTool(dirExists, disk, files, now, type,
                                         content, outcome, tick)
       IN /\ disk' = r.disk
          /\ files' = r.files
          /\ now' = r.clock
          /\ calls' = Append(calls,
                         [ type |-> type, content |-> content,
                           isError |-> r.isError, text |-> r.text,
                           inFlight |-> Cardinality(Pending), doneAt |-> 0 ])
          /\ last' = [ Call("dispatch") EXCEPT !.type = type,
                         !.content = content, !.target = Len(calls) + 1 ]
  /\ UNCHANGED << dirExists, serverVars, sessionVars, peer, probe >>

\* CompleteUpdate resuming the invocation dispatched last
CompleteUpdate_NewestFirst ==
  /\ Pending # {}
  /\ LET i == CHOOSE p \in Pending : \A q \in Pending : q <= p
     IN /\ calls' = [ calls EXCEPT ![i].doneAt = Completed + 1 ]
        /\ last' = [ Call("update-memory-bank-file") EXCEPT
                       !.type = calls[i].type, !.content = calls[i].content,
                       !.isError = calls[i].isError, !.text = calls[i].text,
                       !.target = i ]
  /\ UNCHANGED << storeVars, serverVars, sessionVars, peer, probe >>

\* the handler after the await: the invocation dispatched first among those
\* pending returns its result
CompleteUpdate ==
  /\ Pending # {}
  /\ LET i == CHOOSE p \in Pending : \A q \in Pending : p <= q
     IN /\ calls' = [ calls EXCEPT ![i].doneAt = Completed + 1 ]
        /\ last' = [ Call("update-memory-bank-file") EXCEPT
                       !.type = calls[i].type, !.content = calls[i].content,
                       !.isError = calls[i].isError, !.text = calls[i].text,
                       !.target = i ]
  /\ UNCHANGED << storeVars, serverVars, sessionVars, peer, probe >>

(* ------------------------------ initial state -------------------------- *)
\* the folder may be missing, or hold the files of any subset of the kinds,
\* written before the program started
InitStore ==
  /\ now = 0
  /\ files = << >>
  /\ dirExists \in BOOLEAN
  /\ \E present \in SUBSET Kinds :
       /\ (~dirExists => present = {})
       /\ disk = [ k \in present |-> [content |-> OldContent, mtime |-> 0] ]

InitServer ==
  /\ transport = 0
  /\ transports = {}
  /\ isRunning = FALSE
  /\ httpServer = 0
  /\ listeners = << >>
  /\ conns = << >>
  /\ peer = NoPeer
  /\ probe = NoProbe
  /\ calls = << >>
  /\ last = NoCall

Init == InitStore /\ InitServer

(* ----------------------- MemoryBankMCPServer: lifecycle ---------------- *)
\* MemoryBankService.initialize, awaited by start(): ensure the folder, then
\* load the files
initialize(d, t, failAt, failMode, tickAt) ==
  loadFiles(TRUE, d, t, failAt, failMode, tickAt)

\* the port is held by a listener of one of the instances on this host
PortBound == \E l \in 1..Len(listeners) : listeners[l] = "listening"

\* start() without the early return for an instance that is running
Start_NoGuard ==
  /\ Len(listeners) < MaxListeners
  /\ \E failAt \in Kinds \cup {"none"}, failMode \in {"denied", "full"},
        tickAt \in Kinds \cup {"none"} :
       /\ (failAt = "none" => failMode = "denied")
       /\ LET r == initialize(disk, now, failAt, failMode, tickAt)
          IN /\ dirExists' = TRUE
             /\ disk' = r.disk
             /\ files' = r.files
             /\ now' = r.clock
             /\ IF r.threw
                  THEN /\ last' = [ Call("start") EXCEPT !.threw = TRUE,
                                      !.text = << r.message >> ]
                       /\ UNCHANGED << httpServer, listeners >>
                  ELSE /\ listeners' = Append(listeners, "binding")
                       /\ httpServer' = Len(listeners) + 1
                       /\ last' = [ Call("start") EXCEPT
                                      !.target = Len(listeners) + 1 ]
  /\ UNCHANGED << transport, transports, isRunning, sessionVars, otherVars >>

\* start() calling app.listen whatever initialize did
Start_BindFirst ==
  \/ /\ isRunning
     /\ last' = [ Call("start") EXCEPT !.text = << "running already" >> ]
     /\ UNCHANGED << storeVars, serverVars, sessionVars, otherVars >>
  \/ /\ ~isRunning
     /\ Len(listeners) < MaxListeners
     /\ \E failAt \in Kinds \cup {"none"}, failMode \in {"denied", "full"},
           tickAt \in Kinds \cup {"none"} :
          /\ (failAt = "none" => failMode = "denied")
          /\ LET r == initialize(disk, now, failAt, failMode, tickAt)
             IN /\ dirExists' = TRUE
                /\ disk' = r.disk
                /\ files' = r.files
                /\ now' = r.clock
                /\ listeners' = Append(listeners, "binding")
                /\ httpServer' = Len(listeners) + 1
                /\ last' = [ Call("start") EXCEPT !.threw = r.threw,
                               !.target = Len(listeners) + 1 ]
     /\ UNCHANGED << transport, transports, isRunning, sessionVars, otherVars >>

\* start(), up to app.listen: nothing when running already, else initialize
\* the store and, unless that threw, create the listener
Start ==
  \/ /\ isRunning
     /\ last' = [ Call("start") EXCEPT !.text = << "running already" >> ]
     /\ UNCHANGED << storeVars, serverVars, sessionVars, otherVars >>
  \/ /\ ~isRunning
     /\ Len(listeners) < MaxListeners
     /\ \E failAt \in Kinds \cup {"none"}, failMode \in {"denied", "full"},
           tickAt \in Kinds \cup {"none"} :
          /\ (failAt = "none" => failMode = "denied")
          /\ LET r == initialize(disk, now, failAt, failMode, tickAt)
             IN /\ dirExists' = TRUE
                /\ disk' = r.disk
                /\ files' = r.files
                /\ now' = r.clock
                /\ IF r.threw
                     THEN /\ last' = [ Call("start") EXCEPT !.threw = TRUE,
                                         !.text = << r.message >> ]
                          /\ UNCHANGED << httpServer, listeners >>
                     ELSE /\ listeners' = Append(listeners, "binding")
                          /\ httpServer' = Len(listeners) + 1
                          /\ last' = [ Call("start") EXCEPT
                                         !.target = Len(listeners) + 1 ]
     /\ UNCHANGED << transport, transports, isRunning, sessionVars, otherVars >>

\* the callback of app.listen: the bind succeeded
ListenCallback ==
  \E l \in (1..Len(listeners)) \ peer.created :
    /\ listeners[l] = "binding"
    /\ ~PortBound
    /\ listeners' = [ listeners EXCEPT ![l] = "listening" ]
    /\ isRunning' = TRUE
    /\ last' = [ Call("listening") EXCEPT !.target = l ]
    /\ UNCHANGED << storeVars, transport, transports, httpServer, sessionVars, otherVars >>

\* the "error" event of the listener: the bind failed and start() rejects;
\* the port may also be held by another process
ListenError ==
  \E l \in (1..Len(listeners)) \ peer.created :
    /\ listeners[l] = "binding"
    /\ listeners' = [ listeners EXCEPT ![l] = "failed" ]
    /\ last' = [ Call("listen error") EXCEPT !.target = l, !.threw = TRUE,
                    !.text = << "EADDRINUSE" >> ]
    /\ UNCHANGED << storeVars, transport, transports, isRunning, httpServer,
                    sessionVars, otherVars >>

\* stop()
Stop ==
  /\ IF httpServer # 0 /\ isRunning
       THEN /\ listeners' =
                 [ listeners EXCEPT ![httpServer] =
                     IF @ = "listening" THEN "closed" ELSE @ ]
            /\ isRunning' = FALSE
       ELSE UNCHANGED << listeners, isRunning >>
  /\ last' = Call("stop")
  /\ UNCHANGED << storeVars, transport, transports, httpServer, sessionVars, otherVars >>

(* ------------- a second MemoryBankMCPServer on the same port ----------- *)
\* The second instance runs the same start() and stop() in another editor
\* window. Its listeners are entries of the same table, since both instances
\* ask the host for the same port; the folder it serves is another one, so
\* of its initialize() only the outcome is drawn.

\* PeerListenError going on as if the bind had succeeded
PeerListenError_Running ==
  \E l \in peer.created :
    /\ listeners[l] = "binding"
    /\ listeners' = [ listeners EXCEPT ![l] = "failed" ]
    /\ peer' = [ peer EXCEPT !.isRunning = TRUE ]
    /\ last' = [ Call("peer listen error") EXCEPT !.target = l,
                    !.threw = TRUE, !.text = << "EADDRINUSE" >> ]
    /\ UNCHANGED << storeVars, transport, transports, isRunning, httpServer,
                    sessionVars, probe, calls >>

\* start() of the second instance, up to app.listen
PeerStart ==
  \/ /\ peer.isRunning
     /\ last' = [ Call("peer start") EXCEPT !.text = << "running already" >> ]
     /\ UNCHANGED << storeVars, serverVars, sessionVars, otherVars >>
  \/ /\ ~peer.isRunning
     /\ Len(listeners) < MaxListeners
     /\ \E threw \in BOOLEAN :
          IF threw
            THEN /\ last' = [ Call("peer start") EXCEPT !.threw = TRUE ]
                 /\ UNCHANGED << listeners, peer >>
            ELSE /\ listeners' = Append(listeners, "binding")
                 /\ peer' = [ peer EXCEPT
                                !.httpServer = Len(listeners) + 1,
                                !.created = @ \cup { Len(listeners) + 1 } ]
                 /\ last' = [ Call("peer start") EXCEPT
                                !.target = Len(listeners) + 1 ]
     /\ UNCHANGED << storeVars, transport, transports, isRunning, httpServer,
                     sessionVars, probe, calls >>

\* the callback of the second instance's app.listen
PeerListenCallback ==
  \E l \in peer.created :
    /\ listeners[l] = "binding"
    /\ ~PortBound
    /\ listeners' = [ listeners EXCEPT ![l] = "listening" ]
    /\ peer' = [ peer EXCEPT !.isRunning = TRUE ]
    /\ last' = [ Call("peer listening") EXCEPT !.target = l ]
    /\ UNCHANGED << storeVars, transport, transports, isRunning, httpServer,
                    sessionVars, probe, calls >>

\* the "error" event of a listener of the second instance: its start()
\* rejects
PeerListenError ==
  \E l \in peer.created :
    /\ listeners[l] = "binding"
    /\ listeners' = [ listeners EXCEPT ![l] = "failed" ]
    /\ last' = [ Call("peer listen error") EXCEPT !.target = l,
                    !.threw = TRUE, !.text = << "EADDRINUSE" >> ]
    /\ UNCHANGED << storeVars, transport, transports, isRunning, httpServer,
                    sessionVars, otherVars >>

\* stop() of the second instance
PeerStop ==
  /\ IF peer.httpServer # 0 /\ peer.isRunning
       THEN /\ listeners' =
                 [ listeners EXCEPT ![peer.httpServer] =
                     IF @ = "listening" THEN "closed" ELSE @ ]
            /\ peer' = [ peer EXCEPT !.isRunning = FALSE ]
       ELSE UNCHANGED << listeners, peer >>
  /\ last' = Call("peer stop")
  /\ UNCHANGED << storeVars, transport, transports, isRunning, httpServer,
                  sessionVars, probe, calls >>

(* ------------------------ MemoryBankMCPServer: routes ------------------ *)
\* a request reaches the routes through a listener that is or was bound (a
\* closed listener keeps serving the connections it had accepted)
Served ==
  \E l \in (1..Len(listeners)) \ peer.created :
    listeners[l] \in { "listening", "closed" }

\* SseConnect keeping the session it has: this.transport is set only when null
SseConnect_KeepFirst ==
  /\ Served
  /\ Len(conns) < MaxConn
  /\ transport' = IF transport = 0 THEN Len(conns) + 1 ELSE transport
  /\ conns' = Append(conns, [pc |-> "connecting", open |-> TRUE])
  /\ last' = [ Call("GET /sse") EXCEPT !.target = Len(conns) + 1 ]
  /\ UNCHANGED << storeVars, transports, isRunning, httpServer, listeners,
                  otherVars >>

\* GET /sse up to the await: create the transport, store it in
\* this.transport and call server.connect
SseConnect ==
  /\ Served
  /\ Len(conns) < MaxConn
  /\ transport' = Len(conns) + 1
  /\ conns' = Append(conns, [pc |-> "connecting", open |-> TRUE])
  /\ last' = [ Call("GET /sse") EXCEPT !.target = Len(conns) + 1 ]
  /\ UNCHANGED << storeVars, transports, isRunning, httpServer, listeners,
                  otherVars >>

\* GET /sse after the await: server.connect has resolved, the handler
\* registers its listener for "close" and ends
SseConnected ==
  \E id \in 1..Len(conns) :
    /\ conns[id].pc = "connecting"
    /\ conns' = [ conns EXCEPT ![id].pc = "attached" ]
    /\ last' = [ Call("connected") EXCEPT !.target = id ]
    /\ UNCHANGED << storeVars, serverVars, otherVars >>

\* the streaming connection closes; the "close" listener of the route, when
\* it is registered, logs and does nothing else
ConnClose ==
  \E id \in 1..Len(conns) :
    /\ conns[id].open
    /\ conns' = [ conns EXCEPT ![id].open = FALSE ]
    /\ last' = [ Call("close") EXCEPT !.target = id ]
    /\ UNCHANGED << storeVars, serverVars, otherVars >>

\* postMessages handing the message to the first transport ever created
postMessages_First(tr) ==
  IF tr = 0
    THEN [ Call("POST /messages") EXCEPT !.status = 503, !.isError = TRUE,
             !.text = << "No active SSE connection",
                         "Please reconnect to the SSE endpoint first" >> ]
    ELSE [ Call("POST /messages") EXCEPT !.target = 1 ]

\* postMessages without the check for a null this.transport
postMessages_NoCheck(tr) == [ Call("POST /messages") EXCEPT !.target = tr ]

\* the answer of POST /messages: 503 and the error body when this.transport
\* is null, else the message goes to this.transport.handlePostMessage, which
\* answers it (target is the transport it was handed to, status 0: left to it)
postMessages(tr) ==
  IF tr = 0
    THEN [ Call("POST /messages") EXCEPT !.status = 503, !.isError = TRUE,
             !.text = << "No active SSE connection",
                         "Please reconnect to the SSE endpoint first" >> ]
    ELSE [ Call("POST /messages") EXCEPT !.target = tr ]

PostMessages ==
  /\ Served
  /\ last' = postMessages(transport)
  /\ UNCHANGED << storeVars, serverVars, sessionVars, otherVars >>

\* the body of GET /status: !!this.server, !!this.transport, this.isRunning
\* and this.port (this.server is assigned in the constructor)
getStatus(tr, running) ==
  [ mcpServer |-> TRUE, transport |-> tr # 0, isRunning |-> running,
    port |-> Port ]

GetStatus ==
  /\ Served
  /\ last' = [ Call("GET /status") EXCEPT !.status = 200,
                 !.body = getStatus(transport, isRunning) ]
  /\ UNCHANGED << storeVars, serverVars, sessionVars, otherVars >>

(* ------------------------ the liveness probe --------------------------- *)
\* JSON text is a sequence of tokens
Punct(c) == [ t |-> "punct", v |-> c ]
Str(x) == [ t |-> "string", v |-> x ]
Lit(x) == [ t |-> "literal", v |-> x ]
Raw(x) == [ t |-> "raw", v |-> x ]

\* JSON.stringify of an object with one field whose value is a string
JSONstringify(key, value) ==
  << Punct("{"), Str(key), Punct(":"), Str(value), Punct("}") >>

\* JSON.parse: ok is false when it throws; the value is null, or an object
\* given by its fields
JSONparse(text) ==
  IF text = << Lit("null") >>
    THEN [ ok |-> TRUE, null |-> TRUE, fields |-> << >> ]
  ELSE IF text = << Punct("{"), Punct("}") >>
    THEN [ ok |-> TRUE, null |-> FALSE, fields |-> << >> ]
  ELSE IF /\ Len(text) = 5
          /\ text[1] = Punct("{")
          /\ text[2].t = "string"
          /\ text[3] = Punct(":")
          /\ text[4].t = "string"
          /\ text[5] = Punct("}")
    THEN [ ok |-> TRUE, null |-> FALSE,
           fields |-> [ k \in { text[2].v } |-> text[4].v ] ]
  ELSE [ ok |-> FALSE, null |-> FALSE, fields |-> << >> ]

\* the answer of GET /health: res.status(200).json({ status: "ok ok" })
healthRoute ==
  [ statusCode |-> 200, body |-> JSONstringify("status", "ok ok") ]

\* what a program that is not this server may answer on the port
StatusCodes == { 200, 404 }
Bodies ==
  { JSONstringify("status", "ok ok"),
    JSONstringify("status", "ok"),
    JSONstringify("state", "ok ok"),
    << Punct("{"), Punct("}") >>,
    << Lit("null") >>,
    << Punct("{"), Str("status") >>,
    << Raw("<html>") >>,
    << >> }

\* resolve of the probe's promise: only the first call settles it
resolve(p, v, handler) ==
  IF p.resolved = "pending"
    THEN [ p EXCEPT !.resolved = v, !.by = handler ]
    ELSE p

\* the "end" handler accepting the body whatever the status code
onEnd_AnyStatusCode(statusCode, data) ==
  LET parsedData == JSONparse(data)
  IN IF ~parsedData.ok THEN "false"
     ELSE IF parsedData.null THEN "false"
     ELSE IF /\ "status" \in DOMAIN parsedData.fields
             /\ parsedData.fields["status"] = "ok ok"
       THEN "true"
     ELSE "false"

\* the "end" handler of the response: what it resolves the promise to. A
\* throw of JSON.parse, or of the property access on null, is caught
onEnd(statusCode, data) ==
  IF statusCode = 200
    THEN LET parsedData == JSONparse(data)
         IN IF ~parsedData.ok THEN "false"
            ELSE IF parsedData.null THEN "false"
            ELSE IF /\ "status" \in DOMAIN parsedData.fields
                    /\ parsedData.fields["status"] = "ok ok"
              THEN "true"
            ELSE "false"
    ELSE "false"

\* checkServerHealth(port): http.get sends the request, the handlers and the
\* timeout are registered
CheckServerHealth ==
  /\ probe.pc \in { "idle", "closed" }
  /\ probe' = [ NoProbe EXCEPT !.pc = "sent" ]
  /\ UNCHANGED << storeVars, serverVars, sessionVars, peer, calls, last >>

\* the callback of http.get: the head of the response has arrived. A
\* MemoryBankMCPServer that holds the port answers with its /health route;
\* otherwise another program does, with any status, any body, ending or not
ProbeResponse ==
  /\ probe.pc = "sent"
  /\ probe.idle < TimeoutTicks
  /\ IF PortBound
       THEN probe' = [ probe EXCEPT !.pc = "receiving", !.from = "server",
                         !.statusCode = healthRoute.statusCode,
                         !.rest = healthRoute.body, !.idle = 0 ]
       ELSE \E code \in StatusCodes, body \in Bodies, endless \in BOOLEAN :
              probe' = [ probe EXCEPT !.pc = "receiving", !.from = "other",
                           !.statusCode = code, !.rest = body,
                           !.endless = endless, !.idle = 0 ]
  /\ UNCHANGED << storeVars, serverVars, sessionVars, peer, calls, last >>

\* the "data" handler: data += chunk. A chunk is a part of what is left of
\* the body; a response that never ends goes on with chunks of padding, of
\* which data keeps what fits into MaxData. Traffic restarts the idle timer
ProbeData ==
  /\ probe.pc = "receiving"
  /\ probe.idle < TimeoutTicks
  /\ \/ \E n \in 1..Len(probe.rest) :
          probe' = [ probe EXCEPT
                       !.data = @ \o SubSeq(probe.rest, 1, n),
                       !.rest = SubSeq(@, n + 1, Len(@)),
                       !.idle = 0 ]
     \/ /\ probe.rest = << >>
        /\ probe.endless
        /\ probe' = [ probe EXCEPT
                        !.data = IF Len(@) < MaxData
                                   THEN Append(@, Raw(" ")) ELSE @,
                        !.idle = 0 ]
  /\ UNCHANGED << storeVars, serverVars, sessionVars, peer, calls, last >>

\* the "end" handler: the whole response has been received
ProbeEnd ==
  /\ probe.pc = "receiving"
  /\ probe.idle < TimeoutTicks
  /\ probe.rest = << >>
  /\ ~probe.endless
  /\ probe' = [ resolve(probe, onEnd(probe.statusCode, probe.data), "end")
                  EXCEPT !.pc = "closed" ]
  /\ UNCHANGED << storeVars, serverVars, sessionVars, peer, calls, last >>

\* the "error" handler of the request: the connection failed, or the request
\* was destroyed by the timeout before a response came
ProbeError ==
  /\ probe.pc \in { "sent", "destroyed" }
  /\ probe' = [ resolve(probe, "false", "error") EXCEPT !.pc = "closed" ]
  /\ UNCHANGED << storeVars, serverVars, sessionVars, peer, calls, last >>

\* time passes with no traffic on the probe's socket
ProbeElapse ==
  /\ probe.pc \in { "sent", "receiving" }
  /\ probe.idle < TimeoutTicks
  /\ probe' = [ probe EXCEPT !.idle = @ + 1 ]
  /\ UNCHANGED << storeVars, serverVars, sessionVars, peer, calls, last >>

\* the callback of request.setTimeout: the socket has been idle for the
\* timeout; request.destroy() and resolve(false)
ProbeTimeout ==
  /\ probe.pc \in { "sent", "receiving" }
  /\ probe.idle = TimeoutTicks
  /\ probe' = [ resolve(probe, "false", "timeout") EXCEPT
                  !.pc = IF probe.pc = "sent" THEN "destroyed" ELSE "closed" ]
  /\ UNCHANGED << storeVars, serverVars, sessionVars, peer, calls, last >>

\* the lifecycle of the two instances, with the streaming connects that give
\* the first one a session
NextLifecycle ==
  \/ Start
  \/ ListenCallback
  \/ ListenError
  \/ Stop
  \/ PeerStart
  \/ PeerListenCallback
  \/ PeerListenError
  \/ PeerStop
  \/ SseConnect

SpecLifecycle == Init /\ [][NextLifecycle]_vars

Next ==
  \/ Start
  \/ ListenCallback
  \/ ListenError
  \/ Stop
  \/ PeerStart
  \/ PeerListenCallback
  \/ PeerListenError
  \/ PeerStop
  \/ SseConnect
  \/ SseConnected
  \/ ConnClose
  \/ PostMessages
  \/ GetStatus
  \/ DispatchUpdate
  \/ CompleteUpdate
  \/ CheckServerHealth
  \/ ProbeResponse
  \/ ProbeData
  \/ ProbeEnd
  \/ ProbeError
  \/ ProbeElapse
  \/ ProbeTimeout

Spec == Init /\ [][Next]_vars

(* -------------------- the routes behind a started server --------------- *)
\* the server right after a start() that succeeded: the store initialized
\* from whatever the folder held, the listener bound, no session yet. The
\* routes, resources and tools serve requests from here on
InitStarted ==
  /\ dirExists = TRUE
  /\ \E present \in SUBSET Kinds, tickAt \in Kinds \cup {"none"} :
       LET before == [ k \in present |-> [content |-> OldContent, mtime |-> 0] ]
           r == initialize(before, 0, "none", "denied", tickAt)
       IN /\ disk = r.disk
          /\ files = r.files
          /\ now = r.clock
  /\ transport = 0
  /\ transports = {}
  /\ isRunning = TRUE
  /\ httpServer = 1
  /\ listeners = << "listening" >>
  /\ conns = << >>
  /\ peer = NoPeer
  /\ probe = NoProbe
  /\ calls = << >>
  /\ last = [ Call("listening") EXCEPT !.target = 1 ]

NextSession ==
  \/ Stop
  \/ SseConnect
  \/ SseConnected
  \/ ConnClose
  \/ PostMessages
  \/ GetStatus

SpecSession == InitStarted /\ [][NextSession]_vars

(* ------------- the store behind the registry's resources and tools ----- *)
NextTools ==
  \/ ReadMemoryBankFiles
  \/ GetMemoryBankFile
  \/ UpdateMemoryBankFile

SpecTools == InitStarted /\ [][NextTools]_vars

\* the webview probing the port, with the server not started or started
NextProbe ==
  \/ CheckServerHealth
  \/ ProbeResponse
  \/ ProbeData
  \/ ProbeEnd
  \/ ProbeError
  \/ ProbeElapse
  \/ ProbeTimeout

InitProbe == Init \/ InitStarted

SpecProbe == InitProbe /\ [][NextProbe]_vars

\* time passes and a timer that has expired fires
SpecProbeFair ==
  /\ InitProbe
  /\ [][NextProbe]_vars
  /\ WF_vars(ProbeElapse)
  /\ WF_vars(ProbeTimeout)

\* invocations of update-memory-bank-file that overlap
NextCalls ==
  \/ DispatchUpdate
  \/ CompleteUpdate

SpecCalls == InitStarted /\ [][NextCalls]_vars

(* --------------------------- claims on the session --------------------- *)
\* the body of the no-active-session answer
NoActiveSession ==
  << "No active SSE connection", "Please reconnect to the SSE endpoint first" >>

\* the last call was a POST /messages that was handed to a transport
Forwarded == last.op = "POST /messages" /\ last.target # 0

\* C1: after the streaming connection of the session has closed, and before
\* a new streaming-connect, a POST /messages is answered 503 with the
\* no-active-session error and is handed to no transport.
C1_ClosedSessionDetached ==
  ( /\ last.op = "POST /messages"
    /\ transport # 0
    /\ ~conns[transport].open )
  => ( last.status = 503 /\ last.text = NoActiveSession /\ last.target = 0 )

\* C2: the server refers to exactly the most recently created transport (to
\* none before the first connect) and keeps no earlier one: the transports
\* Map stays empty.
C2_SingleSession ==
  /\ transport = Len(conns)
  /\ transports = {}

C2_Witness ==
  /\ Len(conns) = 2
  /\ transport = 2
  /\ conns[1].open

\* C3: a POST /messages that is handed to a transport is handed to the one
\* created last; after a second connect none reaches the first transport.
C3_SessionExclusive ==
  Forwarded => ( last.target = Len(conns) /\ (Len(conns) >= 2 => last.target # 1) )

C3_Witness ==
  /\ Forwarded
  /\ Len(conns) = 2
  /\ last.target = 2
  /\ conns[1].open

\* C4: a POST /messages handled when no streaming-connect was ever made is
\* answered 503 with the structured no-active-session error, is handed to no
\* transport, and leaves the session reference, isRunning, the listeners and
\* the store as they were.
C4_NoSessionFault ==
  [][ ( last'.op = "POST /messages" /\ Len(conns) = 0 )
      => ( /\ last'.status = 503
           /\ last'.isError
           /\ last'.text = NoActiveSession
           /\ last'.target = 0
           /\ ~last'.threw
           /\ UNCHANGED << storeVars, serverVars, sessionVars >> ) ]_vars

C4_Witness ==
  /\ last.op = "POST /messages"
  /\ last.status = 503
  /\ Len(conns) = 0
  /\ isRunning
  /\ Len(files) = NumKinds

(* ------------------------------ the store alone ------------------------ *)
NextStore ==
  \/ Tick
  \/ InitializeFolders
  \/ LoadFiles
  \/ UpdateFile
  \/ RemoveFile
  \/ GetIsMemoryBankInitialized

SpecStore == Init /\ [][NextStore]_vars

\* the calls of the store with nothing else writing to the folder
NextStoreOnly ==
  \/ Tick
  \/ InitializeFolders
  \/ LoadFiles
  \/ UpdateFile

SpecStoreOnly == Init /\ [][NextStoreOnly]_vars


(* ---------------------------- claims on the store ---------------------- *)
\* the step is a call of updateFile(type, content)
UpdateFileStep(type, content) ==
  /\ last'.op = "updateFile"
  /\ last'.type = type
  /\ \E outcome \in WriteOutcomes, tick \in BOOLEAN :
       UpdateFileCall(type, content, outcome, tick)

\* the step is a call of loadFiles
LoadFilesStep ==
  /\ last'.op = "loadFiles"
  /\ \E failAt \in Kinds \cup {"none"}, failMode \in {"denied", "full"},
       tickAt \in Kinds \cup {"none"} :
       LoadFilesCall(failAt, failMode, tickAt)

\* C5: a call of updateFile whose write fails throws and leaves the Map of
\* cached Documents exactly as it was; a call that changes the Map has not
\* thrown and the file then holds the content written.
C5_UpdateAtomic ==
  [][ \A type \in Kinds, content \in NewContents :
        UpdateFileStep(type, content) =>
          /\ (last'.threw => files' = files)
          /\ (files' # files =>
                /\ ~last'.threw
                /\ existsSync(disk', type)
                /\ disk'[type].content = content) ]_vars

C5_Witness ==
  /\ last.op = "updateFile"
  /\ last.threw
  /\ MapHas(files, last.type)
  /\ getFile(files, last.type).content = OldContent
  /\ disk[last.type].content = ""

\* C6 as stated: after a successful updateFile(kind, X), getFile(kind) has
\* content X and a lastUpdated strictly later than the one it had before.
C6_RoundTripStrict ==
  [][ \A type \in Kinds, content \in NewContents :
        ( UpdateFileStep(type, content) /\ ~last'.threw ) =>
          /\ getFile(files', type).content = content
          /\ ( MapHas(files, type) =>
                getFile(files', type).lastUpdated
                  > getFile(files, type).lastUpdated ) ]_vars

\* C6 amended: after a successful updateFile(kind, X), getFile(kind) has
\* content X and a lastUpdated that is a reading of the clock taken during
\* the call, so not earlier than the one getFile(kind) had before: equal to
\* it when both fall into one millisecond, later when the clock has moved.
C6_RoundTrip ==
  [][ \A type \in Kinds, content \in NewContents :
        ( UpdateFileStep(type, content) /\ ~last'.threw ) =>
          /\ getFile(files', type).content = content
          /\ getFile(files', type).lastUpdated \in now..now'
          /\ ( MapHas(files, type) =>
                getFile(files', type).lastUpdated
                  >= getFile(files, type).lastUpdated )
          /\ ( ( MapHas(files, type)
                 /\ getFile(files, type).lastUpdated < now ) =>
                getFile(files', type).lastUpdated
                  > getFile(files, type).lastUpdated ) ]_vars

C6_Witness ==
  /\ last.op = "updateFile"
  /\ ~last.threw
  /\ getFile(files, last.type).content = "X"
  /\ getFile(files, last.type).lastUpdated = 0
  /\ now = 0
  /\ Len(files) = NumKinds

\* the Map holds exactly one Document of every kind and nothing else
OnePerKind(m) ==
  /\ Len(m) = NumKinds
  /\ \A k \in Kinds : Cardinality({ i \in 1..Len(m) : m[i].type = k }) = 1

\* C7: when loadFiles completes, getAllFiles returns exactly one Document
\* per kind; a kind that had a file carries its content, a kind that had
\* none carries its template, which is also what its file now holds.
C7_Complete ==
  [][ ( LoadFilesStep /\ ~last'.threw ) =>
        /\ OnePerKind(getAllFiles(files'))
        /\ \A k \in Kinds :
             /\ existsSync(disk', k)
             /\ existsSync(disk, k) =>
                  getFile(files', k).content = disk[k].content
             /\ ~existsSync(disk, k) =>
                  /\ getFile(files', k).content = getTemplateForFileType(k)
                  /\ disk'[k].content = getTemplateForFileType(k) ]_vars

C7_Witness ==
  /\ last.op = "loadFiles"
  /\ ~last.threw
  /\ OnePerKind(getAllFiles(files))
  /\ \E k \in Kinds :
       /\ getFile(files, k).content = getTemplateForFileType(k)
       /\ disk[k].content = getTemplateForFileType(k)
       /\ getFile(files, k).lastUpdated > disk[k].mtime

\* C8: a completed loadFiles that follows a completed loadFiles changes no
\* file and no cached Document, content and lastUpdated alike.
C8_Idempotent ==
  [][ ( /\ last.op = "loadFiles"
        /\ ~last.threw
        /\ LoadFilesStep
        /\ ~last'.threw )
      => ( disk' = disk /\ files' = files ) ]_vars

(* ----------------------- claims on resources and tools ----------------- *)
\* C9: for a fileType that has no Document in the store, the resource
\* memory-bank-files throws, the tool get-memory-bank-file returns normally
\* a result with the error flag set, and neither changes the store.
C9_UnknownKindByPath ==
  [][ /\ ( last'.op = "memory-bank-files" /\ ~MapHas(files, last'.type) ) =>
           ( last'.threw /\ UNCHANGED storeVars )
      /\ ( last'.op = "get-memory-bank-file" /\ ~MapHas(files, last'.type) ) =>
           ( ~last'.threw /\ last'.isError /\ UNCHANGED storeVars ) ]_vars

C9_Witness ==
  /\ last.op = "get-memory-bank-file"
  /\ last.type \in UnknownTypes
  /\ last.isError
  /\ ~last.threw
  /\ Len(files) = NumKinds

\* C10: the tool update-memory-bank-file never throws: when updateFile
\* throws, it returns a result with the error flag set whose text carries the
\* message of the error and the Map of cached Documents is as it was; when
\* updateFile succeeds, it returns the success text without the flag.
C10_UpdateToolNoFault ==
  [][ \A type \in FileTypes, content \in NewContents,
         outcome \in WriteOutcomes, tick \in BOOLEAN :
        ( /\ last'.op = "update-memory-bank-file"
          /\ last'.type = type
          /\ UpdateMemoryBankFileCall(type, content, outcome, tick) ) =>
          LET r == updateFile(dirExists, disk, files, now, type, content,
                              outcome, tick)
          IN /\ ~last'.threw
             /\ r.threw =>
                  /\ last'.isError
                  /\ last'.text = << "Error updating", type, r.message >>
                  /\ r.message \in { "ENOENT", "EACCES", "ENOSPC" }
                  /\ files' = files
             /\ ~r.threw =>
                  /\ ~last'.isError
                  /\ last'.text = << "Updated", type, "successfully" >> ]_vars

C10_Witness ==
  /\ last.op = "update-memory-bank-file"
  /\ last.isError
  /\ last.text = << "Error updating", last.type, "ENOSPC" >>
  /\ MapHas(files, last.type)
  /\ getFile(files, last.type).content = OldContent

(* ------------------------ claims on the liveness probe ----------------- *)
\* C16: a probe that was sent resolves eventually, whatever the other side
\* does.
C16_ProbeCompletes ==
  [](probe.pc = "sent" => <>(probe.resolved # "pending"))

\* C17: the probe resolves to true exactly when the response that ended had
\* status 200 and a body that is a JSON object whose status is "ok ok"; a
\* connection error and a timeout resolve it to false, nothing resolves it
\* twice, and the answer of this server's /health resolves it to true.
C17_ProbeVerdict ==
  /\ probe.resolved = "true" <=>
       /\ probe.by = "end"
       /\ probe.statusCode = 200
       /\ probe.data = << Punct("{"), Str("status"), Punct(":"),
                           Str("ok ok"), Punct("}") >>
  /\ probe.by \in { "error", "timeout" } => probe.resolved = "false"
  /\ probe.by = "none" <=> probe.resolved = "pending"
  /\ (probe.by = "end" /\ probe.from = "server") => probe.resolved = "true"

\* the probe of a running server has resolved to true
C17_Witness ==
  /\ PortBound
  /\ probe.from = "server"
  /\ probe.by = "end"
  /\ probe.resolved = "true"

C15_IsInitialized ==
  last.op = "getIsMemoryBankInitialized" =>
    (last.value <=> (dirExists /\ \A k \in Kinds : k \in DOMAIN disk))

\* the answer is false although the cache holds every kind
C15_Witness ==
  /\ last.op = "getIsMemoryBankInitialized"
  /\ ~last.value
  /\ OnePerKind(files)
  /\ \A k \in Kinds : MapHas(files, k)

(* ------------------------ claims on the status route ------------------ *)
\* the session this.transport refers to has a connection that has not closed
SessionOpen == transport # 0 /\ conns[transport].open

\* C14: the answer of GET /status has transport true exactly when the
\* session the server holds has an open connection (false before the first
\* connect and after the connection closed) and isRunning true exactly when
\* the instance is running.
C14_StatusTruthful ==
  last.op = "GET /status" =>
    /\ last.body.transport <=> SessionOpen
    /\ last.body.isRunning <=> isRunning

\* C19: a POST /messages is handed to a transport only when the connect of
\* that transport has completed; while the session the server holds is still
\* connecting, the POST gets the 503 no-active-session answer.
C19_ForwardOnlyAttached ==
  last.op = "POST /messages" =>
    /\ last.target # 0 => conns[last.target].pc = "attached"
    /\ (transport # 0 /\ conns[transport].pc = "connecting") =>
         (last.status = 503 /\ last.text = NoActiveSession)

(* --------------------------- claims on the lifecycle ------------------- *)
\* the listeners the first instance created
OwnListeners == (1..Len(listeners)) \ peer.created

\* the first instance is running and holds the port
FirstRunning ==
  /\ isRunning
  /\ \E l \in OwnListeners : listeners[l] = "listening"

\* C11: while the first instance is running on the port, a bind of the second
\* instance never succeeds; when it fails, the second start() rejects with the
\* address-in-use error, the second instance is not running, no further
\* listener is created (no retry, no other port) and the first instance is
\* running as before.
C11_PortConflict ==
  [][ \A l \in peer.created :
        (FirstRunning /\ listeners[l] = "binding") =>
          /\ listeners'[l] # "listening"
          /\ ~peer'.isRunning
          /\ listeners'[l] = "failed" =>
               /\ last'.threw
               /\ last'.text = << "EADDRINUSE" >>
               /\ Len(listeners') = Len(listeners)
               /\ \A k \in 1..Len(listeners) :
                    k # l => listeners'[k] = listeners[k]
               /\ isRunning'
               /\ httpServer' = httpServer ]_vars

C11_Witness ==
  /\ last.op = "peer listen error"
  /\ last.threw
  /\ FirstRunning
  /\ ~peer.isRunning
  /\ listeners[peer.httpServer] = "failed"

\* C12: a start() of an instance that is running changes nothing: the store,
\* the listeners, isRunning, the listener reference and the session are as
\* before.
C12_StartNoOp ==
  [][ (isRunning /\ last'.op = "start") =>
        UNCHANGED << storeVars, serverVars, sessionVars, otherVars >> ]_vars

C12_Witness ==
  /\ last.op = "start"
  /\ last.text = << "running already" >>
  /\ isRunning
  /\ transport # 0

\* C13: a stop() leaves the session and the store alone; on an instance that
\* is not running it changes nothing at all, on a running one it leaves the
\* instance stopped and none of its listeners holding the port.
C13_StopFrame ==
  [][ last'.op = "stop" =>
        /\ UNCHANGED << storeVars, transport, transports, sessionVars >>
        /\ ~isRunning => UNCHANGED << isRunning, httpServer, listeners >>
        /\ isRunning =>
             /\ ~isRunning'
             /\ \A l \in OwnListeners : listeners'[l] # "listening" ]_vars

\* the store after an initialize() that succeeded
Initialized(dir, d, m) ==
  /\ dir
  /\ \A k \in Kinds : existsSync(d, k) /\ MapHas(m, k)

\* C20: start() creates a listener only when the store is initialized, and
\* when the store is not, it rejects and leaves listeners, listener reference
\* and isRunning alone; isRunning turns true only in the step in which a
\* listener of the instance goes from binding to listening, and a bind that
\* fails leaves isRunning as it was.
C20_StartOrder ==
  [][ /\ (last'.op = "start" /\ ~isRunning) =>
           /\ Len(listeners') > Len(listeners) =>
                (Initialized(dirExists', disk', files') /\ ~last'.threw)
           /\ ~Initialized(dirExists', disk', files') =>
                /\ last'.threw
                /\ UNCHANGED << listeners, httpServer, isRunning >>
      /\ (isRunning' /\ ~isRunning) =>
           \E l \in OwnListeners :
             listeners[l] = "binding" /\ listeners'[l] = "listening"
      /\ last'.op = "listen error" => isRunning' = isRunning ]_vars

C20_Witness ==
  /\ last.op = "listening"
  /\ isRunning
  /\ listeners[httpServer] = "listening"
  /\ Initialized(dirExists, disk, files)

\* the listeners of the first instance that hold the port
BoundListeners == { l \in OwnListeners : listeners[l] = "listening" }

\* C21: whatever start() calls overlap, the instance has at most one listener
\* bound, and while isRunning is true this.httpServer is the listener that
\* is bound, the one a stop() then closes.
C21_StartsConsistent ==
  /\ Cardinality(BoundListeners) <= 1
  /\ isRunning => (httpServer # 0 /\ BoundListeners = { httpServer })

(* -------------------- claims on the set of kinds ----------------------- *)
\* C22: behind an initialized store, whatever fileType strings the tools are
\* invoked with, the cache holds exactly one Document per kind and neither
\* the cache nor the folder holds anything for a name that is no kind.
C22_KindsClosed ==
  /\ OnePerKind(files)
  /\ \A i \in 1..Len(files) : files[i].type \in Kinds
  /\ DOMAIN disk \subseteq Kinds

(* ------------------- claims on cache and folder ------------------------ *)
\* C23: with no other program writing to the folder, after any calls of
\* loadFiles and updateFile, failing ones included, every Document of the
\* cache has the content of the file of its kind.
C23_CacheCoherent ==
  \A i \in 1..Len(files) :
    /\ existsSync(disk, files[i].type)
    /\ disk[files[i].type].content = files[i].content

====
